---------------------------- MODULE Spec2Model ----------------------------
(***************************************************************************)
(* The signaling relay of api/websocket.go: one HTTP handler               *)
(* (HandleRootWSUpgrade) per connection, which authenticates, registers    *)
(* the session in the room directory, runs the event loop of handleWS      *)
(* (read task, keepalive ticker, dispatcher) and tears the session down in *)
(* a deferred function.                                                    *)
(*                                                                         *)
(* Each connection c has two threads: the handler thread, whose position   *)
(* is pc[c], and the read task started by handleWS, whose position is      *)
(* rd[c].  Steps that touch no shared object (decoding, building a         *)
(* message, returning from a function) are merged into the next step that  *)
(* does; every access to the room directory, to a session mutex, to a      *)
(* transport or to a channel is a step of its own, except that the lookup  *)
(* or enumeration that chooses the target of a write is merged with the    *)
(* acquisition of that target's mutex.                                     *)
(***************************************************************************)
EXTENDS Naturals, FiniteSets, Bags, TLC

\* Connection lifetimes (one HTTP request each).
Conns == {"c1", "c2", "c3"}

\* Bound: events of the environment over all connections (frames the
\* clients send, keepalive ticks, writes that fail on an open transport).
MaxEvents == 2

None == "none"

\* Participant keys a client can name as the destination of a relay.
Keys == {"a", "b", "c"}

\* jwt.PionClaim values; the external validation can also return a claim
\* with a field empty.
Claim(t, r, k) == [ApiKeyID |-> t, Room |-> r, SessionKey |-> k]
IncompleteClaims ==
    {Claim("", "r1", "a"), Claim("t1", "", "a"), Claim("t1", "r1", "")}
NoClaim == Claim("", "", "")

\* An upgrade request: the number of authToken query parameters and what
\* jwt.GetClaims answers for the first one (valid = FALSE is its error).
BadRequests ==
    [tokens : {0, 1, 2}, valid : {FALSE}, claim : {NoClaim}]
    \cup [tokens : {1}, valid : {TRUE}, claim : IncompleteClaims]

\* The tokens each client holds: the first two clients can present the same
\* participant key, the third sits in their room, in another room or under
\* another tenant.
Tokens(c) ==
    IF c = "c1" THEN {Claim("t1", "r1", "a")}
    ELSE IF c = "c2" THEN {Claim("t1", "r1", "a"), Claim("t1", "r1", "b")}
    ELSE {Claim("t1", "r1", "c"), Claim("t1", "r2", "a"), Claim("t2", "r1", "a")}

Requests(c) ==
    BadRequests \cup [tokens : {1}, valid : {TRUE}, claim : Tokens(c)]

VARIABLES
    pc,         \* handler thread of each connection
    claims,     \* session.claims (NoClaim while there is no session)
    transport,  \* the websocket: "none", "open", "closed"
    dir,        \* room directory: (tenant, room, key) -> session
    mu,         \* session mutex: the connection whose thread holds it
    w,          \* the write the handler thread is performing
    todo,       \* sessions announceExit has still to visit
    rd,         \* read task: "off", "reading", "sending", "ended"
    stop,       \* the stop channel is closed
    out,        \* exit frames written to each client, as a bag (the other
                \* frames are observed in w while they are written)
    events,     \* events of the environment so far
    cause,      \* why the handler thread returns, until its teardown starts
    nDestroy,   \* calls of DestroySession by each connection
    nAnnounce,  \* calls of announceExit by each connection
    nClose,     \* calls of websocket.Close by each connection
    nStop,      \* executions of close(stop) by each connection
    seq         \* frames of each connection: how many the read task has read
                \* (arrived) and the arrival number of the last one the
                \* event loop took from the channel in (handled)

vars == <<pc, claims, transport, dir, mu, w, todo, rd, stop, out, events,
          cause, nDestroy, nAnnounce, nClose, nStop, seq>>

\* A frame written to a client.  by (the connection whose thread wrote it)
\* is not on the wire.
Msg(method, src, dst, members, sessionKey, by) ==
    [method |-> method, src |-> src, dst |-> dst, members |-> members,
     sessionKey |-> sessionKey, by |-> by]
NoMsg == Msg(None, "", "", {}, "", None)

\* A frame a client sends: json tells whether the envelope decodes ("ok"),
\* does not decode at all ("garbled") or decodes as an envelope whose args
\* do not decode ("badargs"); src is "" when the client gives none.
Frame(json, method, src, dst) ==
    [json |-> json, method |-> method, src |-> src, dst |-> dst]
ClientSrcs == {"", "b"}
Frames ==
    {Frame("garbled", None, "", "")}
    \cup {Frame("ok", m, "", "") : m \in {"members", "pong", "bogus"}}
    \cup {Frame("badargs", m, "", "") : m \in {"sdp", "candidate"}}
    \cup {Frame("ok", m, s, d) : m \in {"sdp", "candidate"}, s \in ClientSrcs, d \in Keys}
NoFrame == Frame(None, None, "", "")

\* A write in progress: the session written to, the frame, the call site
\* ("init", "ping", "reply", "relay", "exit") and the client frame handled.
Write(d, m, ctx, f) == [dst |-> d, msg |-> m, ctx |-> ctx, raw |-> f]
NoWrite == Write(None, NoMsg, None, NoFrame)


Init ==
    /\ pc = [c \in Conns |-> "connecting"]
    /\ claims = [c \in Conns |-> NoClaim]
    /\ transport = [c \in Conns |-> "none"]
    /\ dir = << >>
    /\ mu = [c \in Conns |-> None]
    /\ w = [c \in Conns |-> NoWrite]
    /\ todo = [c \in Conns |-> {}]
    /\ rd = [c \in Conns |-> "off"]
    /\ stop = [c \in Conns |-> FALSE]
    /\ out = [c \in Conns |-> EmptyBag]
    /\ events = 0
    /\ cause = [c \in Conns |-> None]
    /\ nDestroy = [c \in Conns |-> 0]
    /\ nAnnounce = [c \in Conns |-> 0]
    /\ nClose = [c \in Conns |-> 0]
    /\ nStop = [c \in Conns |-> 0]
    /\ seq = [c \in Conns |-> [arrived |-> 0, handled |-> 0]]

(***************************************************************************)
(* Claim validation, lines 153-183.                                        *)
(***************************************************************************)
\* assertClaims without its last branch.
assertClaimsNoRoom(cl) ==
    IF cl.ApiKeyID = "" THEN "Claims were missing a ApiKeyId"
    ELSE IF cl.SessionKey = "" THEN "Claims were missing a sessionKey"
    ELSE None

\* assertClaims: the error it returns, or None for nil.
assertClaims(cl) ==
    IF cl.ApiKeyID = "" THEN "Claims were missing a ApiKeyId"
    ELSE IF cl.SessionKey = "" THEN "Claims were missing a sessionKey"
    ELSE IF cl.Room = "" THEN "Claims were missing a room"
    ELSE None

\* What lines 170-183 do with a request: the error that makes the handler
\* return, or None when the session is created.
authError(req) ==
    IF req.tokens # 1 THEN "Bad authToken count"
    ELSE IF ~req.valid THEN "Failed to getClaims"
    ELSE assertClaims(req.claim)

\* The deferred teardown registered after the initial sendMembers.
deferRegisteredLate(site) == site = "handleWS"

\* The deferred teardown is registered at line 186: a return from the sites
\* below it runs the teardown, a return above it does not.
deferRegistered(site) == site \in {"sendMembers", "handleWS"}

\* Where the handler thread goes when HandleRootWSUpgrade returns at site.
returnFrom(site) == IF deferRegistered(site) THEN "destroy" ELSE "returned"

(***************************************************************************)
(* The room directory (package room, not part of this file).               *)
(***************************************************************************)
StoreSession(d, t, r, k, s) ==
    [x \in (DOMAIN d) \cup {<<t, r, k>>} |-> IF x = <<t, r, k>> THEN s ELSE d[x]]

GetSession(d, t, r, k) ==
    IF <<t, r, k>> \in DOMAIN d THEN d[<<t, r, k>>] ELSE None

\* The members map of a room: participant key -> session.
GetRoom(d, t, r) ==
    [k \in {x[3] : x \in {y \in DOMAIN d : y[1] = t /\ y[2] = r}} |-> d[<<t, r, k>>]]

DestroySession(d, t, r, k) ==
    [x \in (DOMAIN d) \ {<<t, r, k>>} |-> d[x]]

(***************************************************************************)
(* Messages, lines 21-81, and the serialized write of a session.           *)
(***************************************************************************)
\* sendMembers without the test of line 27.
membersOfAll(d, cl) == DOMAIN GetRoom(d, cl.ApiKeyID, cl.Room)

\* sendMembers, lines 22-32: the keys of the caller's room but its own.
membersOf(d, cl) ==
    {k \in DOMAIN GetRoom(d, cl.ApiKeyID, cl.Room) : k # cl.SessionKey}

membersMessage(d, cl, c) == Msg("members", "", "", membersOf(d, cl), "", c)

\* The relayed envelope without the assignments of lines 41 and 55.
relaySrcOfClient(f, cl) == f.src

\* sendSdp and sendCandidate, lines 37-41 and 51-55: the source the relayed
\* envelope carries.
relaySrc(f, cl) == cl.SessionKey

relayMessage(f, cl, c) == Msg(f.method, relaySrc(f, cl), f.dst, {}, "", c)

\* A lookup of the destination under the tenant alone.
relayTargetAnyRoom(d, f, cl) ==
    IF \E x \in DOMAIN d : x[1] = cl.ApiKeyID /\ x[3] = f.dst
    THEN d[CHOOSE x \in DOMAIN d : x[1] = cl.ApiKeyID /\ x[3] = f.dst]
    ELSE None

\* Lines 43 and 57: the session the relay is written to, None when absent.
relayTarget(d, f, cl) == GetSession(d, cl.ApiKeyID, cl.Room, f.dst)

\* sendPing, line 65.
pingMessage(c) == Msg("ping", "", "", {}, "", c)

\* announceExit, lines 70-71.
exitMessage(sessionKey, c) == Msg("exit", "", "", {}, sessionKey, c)

\* announceExit, lines 73-74: the sessions the enumeration visits.
exitTargets(d, t, r) ==
    {GetRoom(d, t, r)[k] : k \in DOMAIN GetRoom(d, t, r)}

\* handleClientMessage, lines 90-106: the handler a frame is routed to.
dispatch(f) ==
    IF f.json = "garbled" THEN "decodeError"
    ELSE IF f.method = "members" THEN "members"
    ELSE IF f.method \in {"sdp", "candidate"} THEN "relay"
    ELSE IF f.method = "pong" THEN "pong"
    ELSE "unknown"

\* An event loop that goes on after a failed write.
afterWriteTolerant(ctx, ok) ==
    IF ctx = "exit" THEN "announce"
    ELSE IF ok \/ ctx # "init" THEN "select"
    ELSE returnFrom("sendMembers")

\* A broadcast whose first failed write ends the deferred function.
afterWriteExitFatal(ctx, ok) ==
    IF ctx = "exit" THEN (IF ok THEN "announce" ELSE "returned")
    ELSE IF ok THEN "select"
    ELSE IF ctx = "init" THEN returnFrom("sendMembers")
    ELSE returnFrom("handleWS")

\* An event loop that ends the connection after a ping, as if a pong
\* had to arrive before the next tick.
afterWritePongAwaited(ctx, ok) ==
    IF ctx = "exit" THEN "announce"
    ELSE IF ok /\ ctx # "ping" THEN "select"
    ELSE IF ctx = "init" THEN returnFrom("sendMembers")
    ELSE returnFrom("handleWS")

\* What a finished WriteJSON leads to: lines 205-208 for the initial
\* members, 130-133 for a ping, 141-144 for a handler, 75-78 for an exit.
afterWrite(ctx, ok) ==
    IF ctx = "exit" THEN "announce"
    ELSE IF ok THEN "select"
    ELSE IF ctx = "init" THEN returnFrom("sendMembers")
    ELSE returnFrom("handleWS")

\* The error a failed WriteJSON is reported as.
writeCause(ctx, ok) ==
    IF ok \/ ctx = "exit" THEN None
    ELSE IF ctx = "init" THEN "initial members write failed"
    ELSE IF ctx = "ping" THEN "sendPing has failed"
    ELSE IF ctx = "reply" THEN "sendMembers failed"
    ELSE "relay write failed"

\* The record of a frame m written to client d.
delivered(o, d, m) ==
    IF m.method = "exit" THEN [o EXCEPT ![d] = @ (+) SetToBag({m})] ELSE o

\* A WriteJSON that also takes the mutex of the writer's own session and
\* keeps it.
BeginWriteHoldingOwn(c, d, m, ctx, f) ==
    /\ mu[d] = None /\ mu[c] = None
    /\ mu' = [x \in Conns |-> IF x \in {c, d} THEN c ELSE mu[x]]
    /\ w' = [w EXCEPT ![c] = Write(d, m, ctx, f)]
    /\ pc' = [pc EXCEPT ![c] = "write"]

\* A WriteJSON that writes to the transport without the session mutex.
BeginWriteUnlocked(c, d, m, ctx, f) ==
    /\ mu' = [mu EXCEPT ![d] = c]
    /\ w' = [w EXCEPT ![c] = Write(d, m, ctx, f)]
    /\ pc' = [pc EXCEPT ![c] = "write"]

\* WriteJSON, first half: the thread of c takes the mutex of session d.
BeginWrite(c, d, m, ctx, f) ==
    /\ mu[d] = None
    /\ mu' = [mu EXCEPT ![d] = c]
    /\ w' = [w EXCEPT ![c] = Write(d, m, ctx, f)]
    /\ pc' = [pc EXCEPT ![c] = "write"]

\* WriteJSON, second half: the transport write succeeds or fails (it fails
\* on a closed transport) and the mutex is released.
WriteDone(c) ==
    /\ pc[c] = "write"
    /\ \E ok \in BOOLEAN :
        /\ ok => transport[w[c].dst] = "open"
        /\ ~ok /\ transport[w[c].dst] = "open" => events < MaxEvents
        /\ events' = IF ~ok /\ transport[w[c].dst] = "open" THEN events + 1
                     ELSE events
        /\ out' = IF ok THEN delivered(out, w[c].dst, w[c].msg) ELSE out
        /\ pc' = [pc EXCEPT ![c] = afterWrite(w[c].ctx, ok)]
        /\ cause' = IF writeCause(w[c].ctx, ok) = None THEN cause
                    ELSE [cause EXCEPT ![c] = writeCause(w[c].ctx, ok)]
        \* handleWS starts the read task, lines 110-125
        /\ rd' = IF ok /\ w[c].ctx = "init" THEN [rd EXCEPT ![c] = "reading"]
                 ELSE rd
    /\ mu' = [mu EXCEPT ![w[c].dst] = None]
    /\ w' = [w EXCEPT ![c] = NoWrite]
    /\ UNCHANGED <<claims, transport, dir, todo, stop, nDestroy, nAnnounce, nClose,
                   seq, nStop>>

(***************************************************************************)
(* HandleRootWSUpgrade up to handleWS, lines 164-208.                      *)
(***************************************************************************)
\* Lines 164-204: the upgrade (which opens the transport or fails), the
\* token count, jwt.GetClaims, assertClaims, the session, the deferred
\* teardown and StoreSession.
Accept(c) ==
    /\ pc[c] = "connecting"
    /\ \E up \in BOOLEAN, req \in Requests(c) :
        IF ~up
        THEN /\ pc' = [pc EXCEPT ![c] = returnFrom("Upgrade")]
             /\ cause' = [cause EXCEPT ![c] = "UpgradeError"]
             /\ UNCHANGED <<claims, transport, dir>>
        ELSE /\ transport' = [transport EXCEPT ![c] = "open"]
             /\ IF authError(req) = None
                THEN /\ claims' = [claims EXCEPT ![c] = req.claim]
                     /\ dir' = StoreSession(dir, req.claim.ApiKeyID, req.claim.Room,
                                            req.claim.SessionKey, c)
                     /\ pc' = [pc EXCEPT ![c] = "sendMembers"]
                     /\ cause' = cause
                ELSE /\ pc' = [pc EXCEPT ![c] = returnFrom("authenticate")]
                     /\ cause' = [cause EXCEPT ![c] = "AuthError"]
                     /\ UNCHANGED <<claims, dir>>
    /\ UNCHANGED <<mu, w, todo, rd, stop, out, events, nDestroy, nAnnounce, nClose,
                   seq, nStop>>

\* Line 205: the initial members snapshot.
SendInitialMembers(c) ==
    /\ pc[c] = "sendMembers"
    /\ BeginWrite(c, c, membersMessage(dir, claims[c], c), "init", NoFrame)
    /\ UNCHANGED <<claims, transport, dir, todo, rd, stop, out, events, cause,
                   nDestroy, nAnnounce, nClose, seq, nStop>>

(***************************************************************************)
(* handleWS, lines 109-149.                                                *)
(***************************************************************************)
\* A read task that goes on reading while the event loop has not taken the
\* frame it offers, which is then replaced by the next one.
ReadFrameOverwriting(c) ==
    /\ rd[c] \in {"reading", "sending"}
    /\ transport[c] = "open"
    /\ events < MaxEvents
    /\ rd' = [rd EXCEPT ![c] = "sending"]
    /\ events' = events + 1
    /\ seq' = [seq EXCEPT ![c].arrived = @ + 1]
    /\ UNCHANGED <<pc, claims, transport, dir, mu, w, todo, stop, out, cause,
                   nDestroy, nAnnounce, nClose, nStop>>

\* Line 116: ReadMessage returns a frame; the read task offers it on in.
\* The bytes of the frame are drawn when the dispatcher decodes them:
\* nothing reads them before.
ReadFrame(c) ==
    /\ rd[c] = "reading"
    /\ transport[c] = "open"
    /\ events < MaxEvents
    /\ rd' = [rd EXCEPT ![c] = "sending"]
    /\ events' = events + 1
    /\ seq' = [seq EXCEPT ![c].arrived = @ + 1]
    /\ UNCHANGED <<pc, claims, transport, dir, mu, w, todo, stop, out, cause,
                   nDestroy, nAnnounce, nClose, nStop>>

\* A read task without the break of line 120: after close(stop) it calls
\* ReadMessage again (followed here up to a second close).
ReadErrorNoBreak(c) ==
    /\ rd[c] = "reading"
    /\ nStop[c] < 2
    /\ stop' = [stop EXCEPT ![c] = TRUE]
    /\ nStop' = [nStop EXCEPT ![c] = @ + 1]
    /\ UNCHANGED <<pc, claims, transport, dir, mu, w, todo, rd, out, events,
                   cause, nDestroy, nAnnounce, nClose, seq>>

\* Lines 117-120: ReadMessage fails; the read task closes stop and ends.
ReadError(c) ==
    /\ rd[c] = "reading"
    /\ stop' = [stop EXCEPT ![c] = TRUE]
    /\ nStop' = [nStop EXCEPT ![c] = @ + 1]
    /\ rd' = [rd EXCEPT ![c] = "ended"]
    /\ UNCHANGED <<pc, claims, transport, dir, mu, w, todo, out, events, cause,
                   nDestroy, nAnnounce, nClose, seq>>

\* Lines 129-133: a tick; sendPing writes to the session itself.
Tick(c) ==
    /\ pc[c] = "select"
    /\ events < MaxEvents
    /\ events' = events + 1
    /\ BeginWrite(c, c, pingMessage(c), "ping", NoFrame)
    /\ UNCHANGED <<claims, transport, dir, todo, rd, stop, out, cause,
                   nDestroy, nAnnounce, nClose, seq, nStop>>

\* Line 134: the event loop takes the frame the read task offers, and the
\* read task goes back to ReadMessage.
Receive(c) ==
    /\ pc[c] = "select"
    /\ rd[c] = "sending"
    /\ rd' = [rd EXCEPT ![c] = "reading"]
    /\ seq' = [seq EXCEPT ![c].handled = seq[c].arrived]

\* Lines 96-97: a members request is answered to the caller.
HandleMembers(c) ==
    /\ Receive(c)
    /\ \E f \in Frames :
        /\ dispatch(f) = "members"
        /\ BeginWrite(c, c, membersMessage(dir, claims[c], c), "reply", f)
    /\ UNCHANGED <<claims, transport, dir, todo, stop, out, events, cause,
                   nDestroy, nAnnounce, nClose, nStop>>

\* Lines 98-101 with sendSdp and sendCandidate: the relay finds its
\* destination and writes to it.
HandleRelay(c) ==
    /\ Receive(c)
    /\ \E f \in Frames :
        /\ dispatch(f) = "relay"
        /\ f.json = "ok"
        /\ relayTarget(dir, f, claims[c]) # None
        /\ BeginWrite(c, relayTarget(dir, f, claims[c]),
                      relayMessage(f, claims[c], c), "relay", f)
    /\ UNCHANGED <<claims, transport, dir, todo, stop, out, events, cause,
                   nDestroy, nAnnounce, nClose, nStop>>

\* Lines 102-103.
HandlePong(c) ==
    /\ Receive(c)
    /\ \E f \in Frames : dispatch(f) = "pong"
    /\ UNCHANGED <<pc, claims, transport, dir, mu, w, todo, stop, out, events,
                   cause, nDestroy, nAnnounce, nClose, nStop>>

\* The error of a handler that writes nothing: lines 91-93 (the envelope
\* does not decode), 104-105 (unknown method), 38-40 and 52-54 (the args do
\* not decode), 44-46 and 58-60 (no destination).
handlerError(d, f, cl) ==
    IF dispatch(f) = "decodeError" THEN "decode error"
    ELSE IF dispatch(f) = "unknown" THEN "unknown client method"
    ELSE IF dispatch(f) = "relay" /\ f.json = "badargs" THEN "decode error"
    ELSE IF dispatch(f) = "relay" /\ relayTarget(d, f, cl) = None
         THEN "no entry found in membersMap"
    ELSE None

\* Lines 141-144: the handler fails before any write and handleWS returns.
HandleError(c) ==
    /\ Receive(c)
    /\ \E f \in Frames :
        /\ handlerError(dir, f, claims[c]) # None
        /\ cause' = [cause EXCEPT ![c] = handlerError(dir, f, claims[c])]
    /\ pc' = [pc EXCEPT ![c] = returnFrom("handleWS")]
    /\ UNCHANGED <<claims, transport, dir, mu, w, todo, stop, out, events,
                   nDestroy, nAnnounce, nClose, nStop>>

\* Lines 145-146: the event loop sees stop closed.
ObserveStop(c) ==
    /\ pc[c] = "select"
    /\ stop[c]
    /\ cause' = [cause EXCEPT ![c] = "stop"]
    /\ pc' = [pc EXCEPT ![c] = returnFrom("handleWS")]
    /\ UNCHANGED <<claims, transport, dir, mu, w, todo, rd, stop, out, events,
                   nDestroy, nAnnounce, nClose, seq, nStop>>

(***************************************************************************)
(* The deferred teardown, lines 186-202.                                   *)
(***************************************************************************)
\* A teardown that broadcasts before it deregisters: the entry is still in
\* the directory when announceExit enumerates the room.
DestroyAfterAnnounce(c) ==
    /\ pc[c] = "destroy"
    /\ dir' = dir
    /\ nDestroy' = [nDestroy EXCEPT ![c] = @ + 1]
    /\ pc' = [pc EXCEPT ![c] = "range"]
    /\ cause' = [cause EXCEPT ![c] = None]
    /\ UNCHANGED <<claims, transport, mu, w, todo, rd, stop, out, events,
                   nAnnounce, nClose, seq, nStop>>

\* Line 187.
Destroy(c) ==
    /\ pc[c] = "destroy"
    /\ dir' = DestroySession(dir, claims[c].ApiKeyID, claims[c].Room,
                             claims[c].SessionKey)
    /\ nDestroy' = [nDestroy EXCEPT ![c] = @ + 1]
    /\ pc' = [pc EXCEPT ![c] = "range"]
    /\ cause' = [cause EXCEPT ![c] = None]
    /\ UNCHANGED <<claims, transport, mu, w, todo, rd, stop, out, events,
                   nAnnounce, nClose, seq, nStop>>

\* Lines 194 and 73-74: announceExit enumerates the room.
RangeExit(c) ==
    /\ pc[c] = "range"
    /\ todo' = [todo EXCEPT ![c] = exitTargets(dir, claims[c].ApiKeyID, claims[c].Room)]
    /\ nAnnounce' = [nAnnounce EXCEPT ![c] = @ + 1]
    /\ pc' = [pc EXCEPT ![c] = "announce"]
    /\ UNCHANGED <<claims, transport, dir, mu, w, rd, stop, out, events, cause,
                   nDestroy, nClose, seq, nStop>>

\* Line 75: the exit message is written to the next session.
AnnounceOne(c) ==
    /\ pc[c] = "announce"
    /\ \E d \in todo[c] :
        /\ BeginWrite(c, d, exitMessage(claims[c].SessionKey, c), "exit", NoFrame)
        /\ todo' = [todo EXCEPT ![c] = @ \ {d}]
    /\ UNCHANGED <<claims, transport, dir, rd, stop, out, events, cause,
                   nDestroy, nAnnounce, nClose, seq, nStop>>

\* Line 195: the enumeration is over and the transport is closed.
Close(c) ==
    /\ pc[c] = "announce"
    /\ todo[c] = {}
    /\ transport' = [transport EXCEPT ![c] = "closed"]
    /\ nClose' = [nClose EXCEPT ![c] = @ + 1]
    /\ pc' = [pc EXCEPT ![c] = "returned"]
    /\ UNCHANGED <<claims, dir, mu, w, todo, rd, stop, out, events, cause,
                   nDestroy, nAnnounce, seq, nStop>>

\* A step of connection c: of its handler thread, its read task, its
\* client or its ticker.
Step(c) ==
    \/ Accept(c)
    \/ SendInitialMembers(c)
    \/ WriteDone(c)
    \/ ReadFrame(c)
    \/ ReadError(c)
    \/ Tick(c)
    \/ HandleMembers(c)
    \/ HandleRelay(c)
    \/ HandlePong(c)
    \/ HandleError(c)
    \/ ObserveStop(c)
    \/ Destroy(c)
    \/ RangeExit(c)
    \/ AnnounceOne(c)
    \/ Close(c)

Next == \E c \in Conns : Step(c)

Spec == Init /\ [][Next]_vars

\* The steps of the handler thread of c that wait for nothing but the
\* scheduler, a mutex that is released, or a transport write that completes.
Handler(c) ==
    \/ SendInitialMembers(c)
    \/ WriteDone(c)
    \/ HandleMembers(c)
    \/ HandleRelay(c)
    \/ HandlePong(c)
    \/ HandleError(c)
    \/ ObserveStop(c)
    \/ Destroy(c)
    \/ RangeExit(c)
    \/ AnnounceOne(c)
    \/ Close(c)

\* ReadMessage on a transport that was closed returns an error.
ReadClosed(c) == transport[c] = "closed" /\ ReadError(c)

\* The behaviours in which only the first two clients connect, every
\* handler thread keeps running and a read on a closed transport returns.
PairConns == {"c1", "c2"}
NextPair == \E c \in PairConns : Step(c)
FairSpec ==
    /\ Init
    /\ [][NextPair]_vars
    /\ \A c \in PairConns : WF_vars(Handler(c)) /\ WF_vars(ReadClosed(c))

(***************************************************************************)
(* The states of a connection (section 4.1 of the specification).          *)
(***************************************************************************)
\* Active: from StoreSession (line 204) to DestroySession (line 187).
Active(c) ==
    \/ pc[c] \in {"sendMembers", "select", "destroy"}
    \/ pc[c] = "write" /\ w[c].ctx # "exit"

\* Closing: from DestroySession to the return of the handler.
Closing(c) ==
    \/ pc[c] \in {"range", "announce"}
    \/ pc[c] = "write" /\ w[c].ctx = "exit"

\* Closed: the handler of a session has returned.
Closed(c) == pc[c] = "returned" /\ claims[c] # NoClaim

\* The upgrade succeeded and the authentication failed.
Rejected(c) == pc[c] = "returned" /\ cause[c] = "AuthError"

SameRoom(c, d) ==
    /\ claims[c].ApiKeyID = claims[d].ApiKeyID
    /\ claims[c].Room = claims[d].Room

\* The keys registered in the room of c, read from the directory itself.
RegisteredKeys(d, c) ==
    {k \in Keys : <<claims[c].ApiKeyID, claims[c].Room, k>> \in DOMAIN d}

\* The number of exit frames of departing connection s that client b got.
ExitsFrom(s, b) ==
    LET m == exitMessage(claims[s].SessionKey, s)
    IN  IF m \in DOMAIN out[b] THEN out[b][m] ELSE 0

Torn(c) ==
    /\ pc[c] = "returned"
    /\ transport[c] = "closed"
    /\ nDestroy[c] = 1 /\ nAnnounce[c] = 1 /\ nClose[c] = 1

(***************************************************************************)
(* C1: a connection that passed claim validation runs DestroySession,      *)
(* announceExit and websocket.Close exactly once each: never twice, and    *)
(* not zero times once its handler has returned, whatever ended it.        *)
(***************************************************************************)
C1_TeardownOnce ==
    \A c \in Conns :
        /\ nDestroy[c] <= 1 /\ nAnnounce[c] <= 1 /\ nClose[c] <= 1
        /\ Closed(c) => Torn(c)

\* Two sessions are torn down, one after a read failure and one whose read
\* task never failed.
C1_Witness ==
    \E c, d \in Conns : Closed(c) /\ Closed(d) /\ Torn(c) /\ Torn(d)
                        /\ stop[c] /\ ~stop[d]

(***************************************************************************)
(* C2: when session S leaves, every other session that remains Active in   *)
(* its room is sent the exit frame of S, no client gets that frame twice,  *)
(* it carries the key of S, and once S is deregistered no directory entry  *)
(* leads to S.  (A write that fails on a broken transport is not held      *)
(* against the claim: the statement is about the sessions announceExit     *)
(* addresses.)                                                             *)
(***************************************************************************)
C2_ExitToAllRemaining ==
    [][\A s \in Conns :
        /\ (pc[s] = "range" /\ pc'[s] = "announce") =>
              \A b \in Conns \ {s} : Active(b) /\ SameRoom(b, s) => b \in todo'[s]
        /\ \A b \in Conns : ExitsFrom(s, b)' <= 1
        /\ (Closing(s) \/ Closed(s))' =>
              \A x \in DOMAIN dir' : dir'[x] # s]_vars

(***************************************************************************)
(* C3: the directory holds an entry under the key of a session exactly     *)
(* while that session is Active, and the entry leads to that session.      *)
(***************************************************************************)
C3_EntryIffActive ==
    \A c \in Conns :
        Active(c) <=>
            GetSession(dir, claims[c].ApiKeyID, claims[c].Room,
                       claims[c].SessionKey) = c

(***************************************************************************)
(* C4: a relay of a session with claim (t, r) and destination k is written *)
(* to the session registered under (t, r, k) when the handler looks it up; *)
(* when none is registered the handler fails with "no entry found" and     *)
(* writes nothing; and every write of a handler thread goes to a session   *)
(* of its own tenant and room.                                             *)
(***************************************************************************)
C4_Inv ==
    \A c \in Conns :
        pc[c] = "write" =>
            /\ SameRoom(c, w[c].dst)
            /\ w[c].ctx = "relay" => claims[w[c].dst].SessionKey = w[c].msg.dst

C4_Step ==
    \A c \in Conns :
        /\ (pc[c] = "select" /\ pc'[c] = "write" /\ w'[c].ctx = "relay") =>
              /\ <<claims[c].ApiKeyID, claims[c].Room, w'[c].msg.dst>> \in DOMAIN dir
              /\ w'[c].dst = dir[<<claims[c].ApiKeyID, claims[c].Room, w'[c].msg.dst>>]
        /\ (cause[c] = None /\ cause'[c] = "no entry found in membersMap") =>
              /\ pc'[c] = "destroy"
              /\ out' = out /\ w' = w /\ mu' = mu

C4_RelayInScope == []C4_Inv /\ [][C4_Step]_vars

\* A relay is being written to its destination while the same key is also
\* registered in another room or under another tenant.
C4_Witness ==
    \E c \in Conns :
        /\ pc[c] = "write" /\ w[c].ctx = "relay" /\ w[c].dst # c
        /\ \E x \in DOMAIN dir :
              /\ x[3] = w[c].msg.dst
              /\ <<x[1], x[2]>> # <<claims[c].ApiKeyID, claims[c].Room>>

(***************************************************************************)
(* C5: every relayed envelope carries as src the participant key of the    *)
(* session whose handler relays it, whatever src the client gave.          *)
(***************************************************************************)
C5_SrcIsSender ==
    \A c \in Conns :
        (pc[c] = "write" /\ w[c].ctx = "relay") =>
            /\ w[c].msg.by = c
            /\ w[c].msg.src = claims[c].SessionKey

\* A relay is being written whose client gave the key of another session.
C5_Witness ==
    \E c \in Conns :
        /\ pc[c] = "write" /\ w[c].ctx = "relay" /\ w[c].dst # c
        /\ w[c].raw.src # "" /\ w[c].raw.src # claims[c].SessionKey
        /\ \E d \in Conns : Active(d) /\ claims[d].SessionKey = w[c].raw.src

(***************************************************************************)
(* C6: every members frame (the snapshot after registration and the reply  *)
(* to a members request) lists the keys registered in the room of the      *)
(* caller when it is built, without the key of the caller, and is written  *)
(* to the caller.                                                          *)
(***************************************************************************)
C6_Inv ==
    \A c \in Conns :
        pc[c] = "write" =>
            /\ w[c].ctx \in {"init", "reply"} <=> w[c].msg.method = "members"
            /\ w[c].msg.method = "members" =>
                  /\ w[c].dst = c
                  /\ claims[c].SessionKey \notin w[c].msg.members

C6_Step ==
    \A c \in Conns :
        (pc[c] # "write" /\ pc'[c] = "write" /\ w'[c].msg.method = "members") =>
            w'[c].msg.members = RegisteredKeys(dir, c) \ {claims[c].SessionKey}

C6_MembersExcludeSelf == []C6_Inv /\ [][C6_Step]_vars

\* The first client asks for the members after two others joined its room.
C6_Witness ==
    /\ pc["c1"] = "write" /\ w["c1"].ctx = "reply"
    /\ w["c1"].msg.members = {"b", "c"}

(***************************************************************************)
(* C7: a relay whose write to another session fails does not end the       *)
(* sender: the sender goes back to its event loop.                         *)
(***************************************************************************)
C7_SenderSurvives ==
    [][\A c \in Conns :
        (pc[c] = "write" /\ w[c].ctx = "relay" /\ w[c].dst # c /\ pc'[c] # "write")
            => pc'[c] = "select"]_vars

(***************************************************************************)
(* C8: a connection whose authentication fails is never registered, tears  *)
(* nothing down and writes nothing: every directory entry belongs to a     *)
(* session with a complete claim.                                          *)
(***************************************************************************)
C8_RejectedLeavesNoTrace ==
    /\ \A x \in DOMAIN dir :
          /\ x[1] # "" /\ x[2] # "" /\ x[3] # ""
          /\ x = <<claims[dir[x]].ApiKeyID, claims[dir[x]].Room,
                   claims[dir[x]].SessionKey>>
    /\ \A c \in Conns :
          cause[c] = "AuthError" =>
              /\ pc[c] = "returned" /\ claims[c] = NoClaim
              /\ nDestroy[c] = 0 /\ nAnnounce[c] = 0
              /\ w[c] = NoWrite /\ todo[c] = {}
              /\ \A x \in DOMAIN dir : dir[x] # c
              /\ \A d \in Conns : \A m \in DOMAIN out[d] : m.by # c

\* A connection was rejected while another session is in its event loop.
C8_Witness ==
    \E c, d \in Conns : Rejected(c) /\ pc[d] = "select"

(***************************************************************************)
(* C9: a connection whose authentication fails has its transport closed.   *)
(***************************************************************************)
C9_RejectedIsClosed ==
    \A c \in Conns : Rejected(c) => transport[c] = "closed"

(***************************************************************************)
(* C10: a read failure, a ping write failure or a handler error on a       *)
(* session leads to its teardown: deregistration, exit broadcast and close *)
(* of the transport, after which the handler has returned.                 *)
(***************************************************************************)
Trigger(c) ==
    \/ stop[c]
    \/ cause[c] \in {"sendPing has failed", "sendMembers failed", "decode error",
                     "unknown client method", "no entry found in membersMap"}

C10_TriggerLeadsToClosed == \A c \in Conns : Trigger(c) ~> Torn(c)

\* A session whose ping write failed is about to be torn down while the
\* other session is in its event loop.
C10_Witness ==
    \E c, d \in Conns :
        /\ pc[c] = "destroy" /\ cause[c] = "sendPing has failed"
        /\ pc[d] = "select" /\ SameRoom(c, d)

(***************************************************************************)
(* C11: a session in its event loop starts its teardown only after a read  *)
(* failure (stop closed), a failed ping write or a handler error of its    *)
(* own; a ping whose write succeeds leaves it in the loop, and a pong is   *)
(* consumed without a write and without a change of any shared state.      *)
(***************************************************************************)
InLoop(c) ==
    \/ pc[c] = "select"
    \/ pc[c] = "write" /\ w[c].ctx \in {"ping", "reply", "relay"}

HandlerErrors ==
    {"decode error", "unknown client method", "no entry found in membersMap",
     "sendMembers failed", "relay write failed"}

Registered(d) ==
    GetSession(dir, claims[d].ApiKeyID, claims[d].Room, claims[d].SessionKey) = d

C12_FailureIsLocal ==
    [][\A c \in Conns :
        /\ (pc[c] = "destroy" \/ Closing(c)) /\ pc'[c] # pc[c] =>
              \A d \in Conns \ {c} :
                  Active(d) /\ Registered(d) => Active(d)' /\ Registered(d)'
        /\ Closing(c)' /\ pc'[c] = "write" => w'[c].msg.method = "exit"]_vars

(***************************************************************************)
(* C13: once the handler of a session has returned, its read task (if it   *)
(* was started) eventually ends, whatever ended the event loop and also    *)
(* when the read task was offering a frame on the channel in.              *)
(***************************************************************************)
C13_ReadTaskEnds ==
    \A c \in Conns : Closed(c) ~> rd[c] \in {"off", "ended"}

(***************************************************************************)
(* C14: the frames of a connection reach the dispatcher in the order the   *)
(* read task read them, none skipped: the event loop takes frame n + 1     *)
(* right after frame n, takes it only when it is idle in its select (the   *)
(* handling of frame n, its write included, is over), and the read task    *)
(* is never more than one frame ahead.                                     *)
(***************************************************************************)
C14_Inv ==
    \A c \in Conns :
        /\ seq[c].handled <= seq[c].arrived
        /\ seq[c].arrived <= seq[c].handled + 1
        /\ rd[c] = "sending" <=> seq[c].arrived = seq[c].handled + 1

C14_Step ==
    \A c \in Conns :
        seq'[c].handled # seq[c].handled =>
            /\ seq'[c].handled = seq[c].handled + 1
            /\ pc[c] = "select"
            /\ seq'[c].arrived = seq[c].arrived

C14_FramesInOrder == []C14_Inv /\ [][C14_Step]_vars

\* The second frame of a connection is being handled while its read task
\* is back in ReadMessage.
C14_Witness ==
    \E c \in Conns :
        /\ seq[c].handled = 2 /\ seq[c].arrived = 2
        /\ pc[c] = "write" /\ w[c].ctx \in {"reply", "relay"}

(***************************************************************************)
(* C15: at most one thread is writing a frame to the transport of a        *)
(* session at any instant, whoever the writers are (the session's own      *)
(* event loop, relays and exit broadcasts of other sessions), and the      *)
(* writer is the holder of that session's mutex.                           *)
(***************************************************************************)
Writers(d) == {c \in Conns : pc[c] = "write" /\ w[c].dst = d}

C15_OneWriter ==
    \A d \in Conns :
        /\ Cardinality(Writers(d)) <= 1
        /\ \A c \in Writers(d) : mu[d] = c
        /\ mu[d] # None => mu[d] \in Writers(d)

\* A relay is being written into a session while the teardown of a third
\* session has the exit frame for the same session still to write.
C15_Witness ==
    \E c, d, e \in Conns :
        /\ c # d /\ d # e /\ c # e
        /\ pc[c] = "write" /\ w[c].ctx = "relay" /\ w[c].dst = d
        /\ pc[e] = "announce" /\ d \in todo[e]

(***************************************************************************)
(* C16: close(stop) runs at most once per connection, only as the step of  *)
(* the read task whose ReadMessage failed, after which the read task is    *)
(* over; and once stop is closed the teardown of the connection begins:    *)
(* the event loop leaves its select (through the stop case unless another  *)
(* trigger ended it first).                                                *)
(***************************************************************************)
C16_Inv ==
    \A c \in Conns :
        /\ nStop[c] <= 1
        /\ stop[c] <=> nStop[c] = 1
        /\ stop[c] <=> rd[c] = "ended"

C16_Step ==
    \A c \in Conns :
        /\ nStop'[c] # nStop[c] =>
              rd[c] = "reading" /\ rd'[c] = "ended" /\ ~stop[c] /\ stop'[c]
        /\ stop[c] => stop'[c]
        /\ (InLoop(c) /\ ~InLoop(c)' /\ cause'[c] = "stop") =>
              stop[c] /\ pc[c] = "select" /\ pc'[c] = "destroy"

C17_Inv ==
    \A c \in Conns :
        /\ nAnnounce[c] <= nDestroy[c] /\ nClose[c] <= nAnnounce[c]
        /\ c \notin todo[c]
        /\ (pc[c] = "write" /\ w[c].ctx = "exit") =>
              /\ w[c].dst # c /\ SameRoom(c, w[c].dst)
              /\ w[c].msg.sessionKey = claims[c].SessionKey
              /\ nDestroy[c] = 1 /\ nAnnounce[c] = 1 /\ nClose[c] = 0
        /\ nClose[c] = 1 => todo[c] = {} /\ pc[c] = "returned"
        /\ \A d \in Conns : ExitsFrom(c, d) > 0 => d # c /\ nDestroy[c] = 1

C17_Step ==
    \A c \in Conns :
        /\ (pc[c] = "destroy" /\ pc'[c] # "destroy") =>
              /\ pc'[c] = "range"
              /\ <<claims[c].ApiKeyID, claims[c].Room, claims[c].SessionKey>>
                    \notin DOMAIN dir'
        /\ (pc[c] = "range" /\ pc'[c] # "range") =>
              /\ pc'[c] = "announce"
              /\ todo'[c] = {dir[x] : x \in {y \in DOMAIN dir :
                                y[1] = claims[c].ApiKeyID /\ y[2] = claims[c].Room}}
        /\ nClose'[c] # nClose[c] => pc[c] = "announce" /\ todo[c] = {}

C17_TeardownOrder == []C17_Inv /\ [][C17_Step]_vars

\* A teardown is about to deregister a key that has no entry any more while
\* another session of its room is in its event loop.
C17_Witness ==
    \E c, d \in Conns :
        /\ pc[c] = "destroy"
        /\ <<claims[c].ApiKeyID, claims[c].Room, claims[c].SessionKey>>
              \notin DOMAIN dir
        /\ c # d /\ pc[d] = "select" /\ SameRoom(c, d)

(***************************************************************************)
(* C18: the teardown of a connection removes no directory entry that leads *)
(* to another session, and it announces the exit of its key only when no   *)
(* Active session of the room holds that key.                              *)
(***************************************************************************)
C18_RemovesOwnEntryOnly ==
    [][\A c \in Conns :
        /\ (pc[c] = "destroy" /\ pc'[c] = "range") =>
              \A x \in DOMAIN dir :
                  dir[x] # c => x \in DOMAIN dir' /\ dir'[x] = dir[x]
        /\ (pc[c] = "range" /\ pc'[c] = "announce") =>
              \A d \in Conns \ {c} :
                  ~(Active(d) /\ SameRoom(c, d)
                    /\ claims[d].SessionKey = claims[c].SessionKey)]_vars

(***************************************************************************)
(* C19: when the write of an exit frame ends, failed or not, the broadcast *)
(* goes on: the sessions still to visit are unchanged and are visited      *)
(* next, nothing is recorded as a cause, and the transport of the          *)
(* departing connection is closed once the enumeration is over.            *)
(***************************************************************************)
C19_Step ==
    \A c \in Conns :
        /\ (pc[c] = "write" /\ w[c].ctx = "exit" /\ pc'[c] # "write") =>
              /\ pc'[c] = "announce"
              /\ todo'[c] = todo[c]
              /\ cause'[c] = cause[c]
              /\ nClose'[c] = 0
        /\ (pc[c] = "announce" /\ pc'[c] # "announce") =>
              \/ pc'[c] = "write" /\ w'[c].ctx = "exit" /\ w'[c].dst \in todo[c]
                 /\ todo'[c] = todo[c] \ {w'[c].dst}
              \/ pc'[c] = "returned" /\ todo[c] = {} /\ transport'[c] = "closed"

C19_Inv ==
    \A c \in Conns :
        pc[c] = "returned" /\ claims[c] # NoClaim =>
            todo[c] = {} /\ transport[c] = "closed" /\ nClose[c] = 1

C19_BroadcastSurvivesFailure == []C19_Inv /\ [][C19_Step]_vars

\* An exit frame is being written to a session whose transport is already
\* closed, so the write fails, while another session is still to be visited.
C19_Witness ==
    \E c \in Conns :
        /\ pc[c] = "write" /\ w[c].ctx = "exit"
        /\ transport[w[c].dst] = "closed"
        /\ todo[c] # {}

(***************************************************************************)
(* C20: a thread holds at most one session mutex, only while it is inside  *)
(* the write to that session, so it never waits for a mutex while holding  *)
(* one; every mutex taken is released, every write ends, and a thread that *)
(* has a frame to write (a reply, a relay, the initial members, an exit    *)
(* broadcast) gets to write it or is ended by another trigger.             *)
(***************************************************************************)
Held(c) == {d \in Conns : mu[d] = c}

C20_Inv ==
    \A c \in Conns :
        /\ Cardinality(Held(c)) <= 1
        /\ \A d \in Held(c) : pc[c] = "write" /\ w[c].dst = d
        /\ pc[c] # "write" => Held(c) = {}

C20_NoLockDeadlock ==
    /\ []C20_Inv
    /\ \A d \in Conns : (mu[d] # None) ~> (mu[d] = None)
    /\ \A c \in Conns : (pc[c] = "write") ~> (pc[c] # "write")
    /\ \A c \in Conns : (pc[c] = "sendMembers") ~> (pc[c] # "sendMembers")
    /\ \A c \in Conns : (pc[c] = "announce") ~> (pc[c] = "returned")
    /\ \A c \in Conns : (pc[c] = "select" /\ rd[c] = "sending")
                            ~> (pc[c] # "select" \/ rd[c] # "sending")

\* Two sessions relay to each other at the same time: each thread holds the
\* mutex of the other session.
C20_Witness ==
    \E c, d \in Conns :
        /\ c # d
        /\ pc[c] = "write" /\ w[c].ctx = "relay" /\ w[c].dst = d
        /\ pc[d] = "write" /\ w[d].ctx = "relay" /\ w[d].dst = c

=============================================================================
